---- MODULE Spec2Model ----
(***************************************************************************)
(* The chat engine of excel-insights-ai: the useChatEngine hook (session   *)
(* store + response dispatcher) together with the two callers that feed it *)
(* (ChatArea.handleSend, ChatSidebar through Index).                       *)
(*                                                                         *)
(* Modelling conventions                                                    *)
(*  - generateId() draws 8 random base-36 characters; it is modelled as a  *)
(*    fresh value: the counter nextId.  The initial session's literal id   *)
(*    "default" is DefaultId.                                               *)
(*  - A text (chat input, question) is a sequence of tokens; WS is a       *)
(*    whitespace token.  String.trim, toLowerCase and includes are         *)
(*    computed on that representation.                                      *)
(*  - React re-renders between two discrete events, so the activeSessionId *)
(*    a handler closes over is the current one when the handler is called; *)
(*    the setTimeout callback keeps the value of the render in which       *)
(*    sendMessage was called (the field target of a timer).                *)
(*  - Time is counted in units of 600 ms; a timer holds the time that      *)
(*    remains until it fires.  Timers due at the same instant fire in the  *)
(*    order they were set.                                                  *)
(*  - panel is the state of FileUploadPanel (with the uploadOpen flag of   *)
(*    Index and the FileReader loads that are under way).  The panel is    *)
(*    followed step by step in SpecUpload; in the other specifications the *)
(*    file it hands over arrives in one step (SetFile).                    *)
(*  - timestamp fields (new Date()) are never read by the engine and are   *)
(*    left out.                                                             *)
(*  - sends and lastOp are history variables: they record what was called  *)
(*    and in which state, and no action reads them to decide what the      *)
(*    program does.                                                         *)
(***************************************************************************)
EXTENDS Integers, Sequences, FiniteSets, TLC

VARIABLES sessions, activeSessionId, isTyping, timers, nextId, sends, lastOp, panel

vars == <<sessions, activeSessionId, isTyping, timers, nextId, sends, lastOp, panel>>

(***************************************************************************)
(* Bounds of the model.                                                     *)
(***************************************************************************)
MaxId == 4
MaxSessions == 3
MaxReads == 2

(***************************************************************************)
(* Program constants.                                                       *)
(***************************************************************************)
DefaultId == 0
GhostId == 0 - 1
DelayMin == 2
DelayMax == 3
PreviewRows == 5
DefaultHeaders == 5
SysMsgHeaders == 4

NoFile ==
  [name |-> <<>>, sheets |-> <<>>, selectedSheet |-> "", data |-> <<>>,
   headers |-> <<>>, rowCount |-> 0]
NoTable == [headers |-> <<>>, rows |-> <<>>, present |-> FALSE]

Min(a, b) == IF a < b THEN a ELSE b
Max(a, b) == IF a > b THEN a ELSE b

(***************************************************************************)
(* Texts.                                                                   *)
(***************************************************************************)
WS == " "

\* String.prototype.toLowerCase, token by token.
LowerToken(t) ==
  CASE t = "Summary" -> "summary"
    [] t = "Show" -> "show"
    [] t = "LAST" -> "last"
    [] t = ".XLSX" -> ".xlsx"
    [] t = ".CSV" -> ".csv"
    [] OTHER -> t

toLowerCase(s) == [i \in 1..Len(s) |-> LowerToken(s[i])]

\* String.prototype.trim: strips the whitespace at both ends.
RECURSIVE TrimStart(_)
TrimStart(s) ==
  IF s # <<>> /\ Head(s) = WS THEN TrimStart(Tail(s)) ELSE s

RECURSIVE TrimEnd(_)
TrimEnd(s) ==
  IF s # <<>> /\ s[Len(s)] = WS THEN TrimEnd(SubSeq(s, 1, Len(s) - 1)) ELSE s

trim(s) == TrimEnd(TrimStart(s))

\* Array.prototype.slice(start, end) with JavaScript's index normalisation.
NormIndex(n, len) == IF n < 0 THEN Max(len + n, 0) ELSE Min(n, len)

slice(s, start, end) ==
  LET from == NormIndex(start, Len(s))
      to == NormIndex(end, Len(s))
  IN  IF from >= to THEN <<>> ELSE SubSeq(s, from + 1, to)

sliceFrom(s, start) == slice(s, start, Len(s))

(***************************************************************************)
(* String.prototype.includes on token sequences.  A keyword of one word is *)
(* included when it is a substring of some token; "how many" is included   *)
(* when a token ends in "how", a whitespace follows and the next token     *)
(* starts with "many".                                                      *)
(***************************************************************************)
SubstringsOf(t) ==
  CASE t = "summary" -> {"summary"}
    [] t = "overview" -> {"overview"}
    [] t = "describe" -> {"describe"}
    [] t = "columns" -> {"column"}
    [] t = "headers" -> {"header"}
    [] t = "field" -> {"field"}
    [] t = "rows" -> {"row"}
    [] t = "count" -> {"count"}
    [] t = "show" -> {"show"}
    [] t = "preview" -> {"preview"}
    [] t = "sample" -> {"sample"}
    [] t = "first" -> {"first"}
    [] t = "last" -> {"last"}
    [] OTHER -> {}

EndsInHow(t) == t \in {"how", "show"}
StartsWithMany(t) == t \in {"many"}

includes(q, kw) ==
  IF kw = "how many"
  THEN \E i \in 1..Len(q) :
         /\ i + 2 <= Len(q)
         /\ EndsInHow(q[i])
         /\ q[i + 1] = WS
         /\ StartsWithMany(q[i + 2])
  ELSE \E i \in 1..Len(q) : kw \in SubstringsOf(q[i])

includesAny(q, kws) == \E kw \in kws : includes(q, kw)

(***************************************************************************)
(* Uploaded files.  FileUploadPanel.handleConfirm builds the UploadedFile   *)
(* from the chosen sheet of the parsed workbook: the first row gives the    *)
(* headers, the other rows the data.                                        *)
(***************************************************************************)
SheetA ==
  << <<"Region", "Units">>,
     <<"r1", "u1">>, <<"r2", "u2">>, <<"r3", "u3">>,
     <<"r4", "u4">>, <<"r5", "u5">>, <<"r6", "u6">> >>

SheetB ==
  << <<"h1", "h2", "h3", "h4", "h5", "h6">>,
     <<"a1">>, <<"a2">>, <<"a3">> >>

WorkbookA == [name |-> <<"Q3-Report", ".XLSX">>, sheets |-> <<"Data">>, json |-> SheetA]
WorkbookB == [name |-> <<"sales", ".csv">>, sheets |-> <<"Sheet1">>, json |-> SheetB]

handleConfirm(parsedFile) ==
  LET jsonData == parsedFile.json
      headers == IF jsonData = <<>> THEN <<>> ELSE jsonData[1]
      dataRows == sliceFrom(jsonData, 1)
  IN  [name |-> parsedFile.name,
       sheets |-> parsedFile.sheets,
       selectedSheet |-> parsedFile.sheets[1],
       data |-> dataRows,
       headers |-> headers,
       rowCount |-> Len(dataRows)]

FileA == handleConfirm(WorkbookA)
FileB == handleConfirm(WorkbookB)
Files == {FileA, FileB}

\* A sheet of twelve data rows and a sheet that holds its header row only.
SheetTwelve == << <<"n", "sq">> >> \o [i \in 1..12 |-> <<i, i * i>>]
SheetEmpty == << <<"only", "header">> >>

WorkbookTwelve == [name |-> <<"twelve", ".xls">>, sheets |-> <<"S">>, json |-> SheetTwelve]
WorkbookEmpty == [name |-> <<"empty", ".CSV">>, sheets |-> <<"E">>, json |-> SheetEmpty]

FileTwelve == handleConfirm(WorkbookTwelve)
FileEmpty == handleConfirm(WorkbookEmpty)

\* file.name.replace(/\.(xlsx|xls|csv)$/i, ""): a name is <<stem, extension>>.
stripExtension(name) ==
  IF Len(name) = 2 /\ LowerToken(name[2]) \in {".xlsx", ".xls", ".csv"}
  THEN <<name[1]>>
  ELSE name

(***************************************************************************)
(* The response dispatcher.  A content is the tag of its template followed *)
(* by the values the template interpolates.                                 *)
(***************************************************************************)
Text(content) == [content |-> content, table |-> NoTable]

Table(content, headers, rows) ==
  [content |-> content,
   table |-> [headers |-> headers, rows |-> rows, present |-> TRUE]]

\* The dispatcher as it would be if the preview keywords were tested first.
generateMockResponse_PreviewFirst(question, file) ==
  IF file = NoFile
  THEN Text(<<"tpl:upload-first">>)
  ELSE
    LET q == toLowerCase(question) IN
    IF includesAny(q, {"show", "preview", "sample", "first"})
    THEN Table(<<"tpl:preview", Min(PreviewRows, Len(file.data))>>,
               file.headers, slice(file.data, 0, PreviewRows))
    ELSE IF includesAny(q, {"summary", "overview", "describe"})
    THEN Text(<<"tpl:summary", file.name, file.selectedSheet, file.rowCount,
                Len(file.headers), file.headers>>)
    ELSE IF includesAny(q, {"column", "header", "field"})
    THEN Text(<<"tpl:columns", Len(file.headers),
                [i \in 1..Len(file.headers) |-> <<i, file.headers[i]>>]>>)
    ELSE IF includesAny(q, {"row", "count", "how many"})
    THEN Text(<<"tpl:rows", file.rowCount, Len(file.headers), file.selectedSheet>>)
    ELSE IF includes(q, "last")
    THEN Table(<<"tpl:last", Min(PreviewRows, Len(file.data))>>,
               file.headers, sliceFrom(file.data, 0 - PreviewRows))
    ELSE Text(<<"tpl:default", file.selectedSheet, file.name, file.rowCount,
                slice(file.headers, 0, DefaultHeaders),
                IF Len(file.headers) > DefaultHeaders
                THEN Len(file.headers) - DefaultHeaders ELSE 0>>)

\* The dispatcher as it would be if the last rows were taken with
\* slice(data.length - 5), which counts from the end when it is negative.
generateMockResponse_LastByLength(question, file) ==
  IF file = NoFile
  THEN Text(<<"tpl:upload-first">>)
  ELSE
    LET q == toLowerCase(question) IN
    IF includesAny(q, {"summary", "overview", "describe"})
    THEN Text(<<"tpl:summary", file.name, file.selectedSheet, file.rowCount,
                Len(file.headers), file.headers>>)
    ELSE IF includesAny(q, {"column", "header", "field"})
    THEN Text(<<"tpl:columns", Len(file.headers),
                [i \in 1..Len(file.headers) |-> <<i, file.headers[i]>>]>>)
    ELSE IF includesAny(q, {"row", "count", "how many"})
    THEN Text(<<"tpl:rows", file.rowCount, Len(file.headers), file.selectedSheet>>)
    ELSE IF includesAny(q, {"show", "preview", "sample", "first"})
    THEN Table(<<"tpl:preview", Min(PreviewRows, Len(file.data))>>,
               file.headers, slice(file.data, 0, PreviewRows))
    ELSE IF includes(q, "last")
    THEN Table(<<"tpl:last", Min(PreviewRows, Len(file.data))>>,
               file.headers, sliceFrom(file.data, Len(file.data) - PreviewRows))
    ELSE Text(<<"tpl:default", file.selectedSheet, file.name, file.rowCount,
                slice(file.headers, 0, DefaultHeaders),
                IF Len(file.headers) > DefaultHeaders
                THEN Len(file.headers) - DefaultHeaders ELSE 0>>)

generateMockResponse(question, file) ==
  IF file = NoFile
  THEN Text(<<"tpl:upload-first">>)
  ELSE
    LET q == toLowerCase(question) IN
    IF includesAny(q, {"summary", "overview", "describe"})
    THEN Text(<<"tpl:summary", file.name, file.selectedSheet, file.rowCount,
                Len(file.headers), file.headers>>)
    ELSE IF includesAny(q, {"column", "header", "field"})
    THEN Text(<<"tpl:columns", Len(file.headers),
                [i \in 1..Len(file.headers) |-> <<i, file.headers[i]>>]>>)
    ELSE IF includesAny(q, {"row", "count", "how many"})
    THEN Text(<<"tpl:rows", file.rowCount, Len(file.headers), file.selectedSheet>>)
    ELSE IF includesAny(q, {"show", "preview", "sample", "first"})
    THEN Table(<<"tpl:preview", Min(PreviewRows, Len(file.data))>>,
               file.headers, slice(file.data, 0, PreviewRows))
    ELSE IF includes(q, "last")
    THEN Table(<<"tpl:last", Min(PreviewRows, Len(file.data))>>,
               file.headers, sliceFrom(file.data, 0 - PreviewRows))
    ELSE Text(<<"tpl:default", file.selectedSheet, file.name, file.rowCount,
                slice(file.headers, 0, DefaultHeaders),
                IF Len(file.headers) > DefaultHeaders
                THEN Len(file.headers) - DefaultHeaders ELSE 0>>)

(***************************************************************************)
(* The session store.                                                       *)
(***************************************************************************)
NewSession(id, name) ==
  [id |-> id, name |-> name, fileName |-> <<>>, messages |-> <<>>, file |-> NoFile]

Message(id, role, content, table) ==
  [id |-> id, role |-> role, content |-> content, table |-> table]

Ids(ss) == {ss[i].id : i \in 1..Len(ss)}

\* sessions.find((s) => s.id === id), as the index of the first match (0: none).
findIndex(ss, id) ==
  IF id \in Ids(ss)
  THEN CHOOSE i \in 1..Len(ss) : ss[i].id = id /\ \A j \in 1..(i - 1) : ss[j].id # id
  ELSE 0

\* prev.filter((s) => s.id !== id)
RECURSIVE filterOut(_, _)
filterOut(ss, id) ==
  IF ss = <<>> THEN <<>>
  ELSE IF Head(ss).id # id THEN <<Head(ss)>> \o filterOut(Tail(ss), id)
  ELSE filterOut(Tail(ss), id)

\* const activeSession = sessions.find(...) || sessions[0]
activeSession ==
  LET i == findIndex(sessions, activeSessionId)
  IN  IF i = 0 THEN sessions[1] ELSE sessions[i]

Elements(ss) == {ss[i] : i \in 1..Len(ss)}

\* prev.map((s) => (s.id === id ? updater(s) : s)); the updater is given as
\* a function on the sessions of prev.
updateSession(prev, id, updater) ==
  [i \in 1..Len(prev) |-> IF prev[i].id = id THEN updater[prev[i]] ELSE prev[i]]

appendMessage(s, msg) == [s EXCEPT !.messages = Append(s.messages, msg)]

\* deleteSession as it would be without the fallback session.
deleteSessionResult_NoFallback(prev, active, id, newId) ==
  LET filtered == filterOut(prev, id) IN
  IF active = id /\ filtered # <<>>
  THEN [sessions |-> filtered, active |-> filtered[1].id, usedId |-> FALSE]
  ELSE [sessions |-> filtered, active |-> active, usedId |-> FALSE]

\* deleteSession as it would be if it left activeSessionId alone when the
\* active session is deleted.
deleteSessionResult_KeepActive(prev, active, id, newId) ==
  LET filtered == filterOut(prev, id) IN
  IF Len(filtered) = 0
  THEN [sessions |-> <<NewSession(newId, <<"New Chat">>)>>, active |-> newId, usedId |-> TRUE]
  ELSE [sessions |-> filtered, active |-> active, usedId |-> FALSE]

\* deleteSession as it would be if the fallback session were not made active.
deleteSessionResult_FallbackNotActive(prev, active, id, newId) ==
  LET filtered == filterOut(prev, id) IN
  IF Len(filtered) = 0
  THEN [sessions |-> <<NewSession(newId, <<"New Chat">>)>>, active |-> active, usedId |-> TRUE]
  ELSE IF active = id
  THEN [sessions |-> filtered, active |-> filtered[1].id, usedId |-> FALSE]
  ELSE [sessions |-> filtered, active |-> active, usedId |-> FALSE]

\* deleteSession as it would be if the last remaining session became active.
deleteSessionResult_LastBecomesActive(prev, active, id, newId) ==
  LET filtered == filterOut(prev, id) IN
  IF Len(filtered) = 0
  THEN [sessions |-> <<NewSession(newId, <<"New Chat">>)>>, active |-> newId, usedId |-> TRUE]
  ELSE IF active = id
  THEN [sessions |-> filtered, active |-> filtered[Len(filtered)].id, usedId |-> FALSE]
  ELSE [sessions |-> filtered, active |-> active, usedId |-> FALSE]

\* createNewChat as it would be if the new session were put last.
createNewChatResult_Appends(prev, newId) ==
  [sessions |-> prev \o <<NewSession(newId, <<"New Chat">>)>>, active |-> newId]

\* createNewChat: the new collection and the new active id.
createNewChatResult(prev, newId) ==
  [sessions |-> <<NewSession(newId, <<"New Chat">>)>> \o prev, active |-> newId]

\* deleteSession: the new collection and the new active id; usedId tells
\* whether the fallback session consumed the generated id.
deleteSessionResult(prev, active, id, newId) ==
  LET filtered == filterOut(prev, id) IN
  IF Len(filtered) = 0
  THEN [sessions |-> <<NewSession(newId, <<"New Chat">>)>>, active |-> newId, usedId |-> TRUE]
  ELSE IF active = id
  THEN [sessions |-> filtered, active |-> filtered[1].id, usedId |-> FALSE]
  ELSE [sessions |-> filtered, active |-> active, usedId |-> FALSE]

\* setFile as it would be if a new file started the log afresh.
setFileResult_ResetsLog(prev, active, file, newId) ==
  LET sysMsg == Message(newId, "ai", <<"tpl:loaded", file.name>>, NoTable)
  IN  updateSession(prev, active,
                    [s \in Elements(prev) |->
                       [s EXCEPT !.messages = <<sysMsg>>,
                                 !.file = file,
                                 !.fileName = file.name,
                                 !.name = stripExtension(file.name)]])

\* setFile as it would be if the file were bound to every session.
setFileResult_AllSessions(prev, active, file, newId) ==
  LET sysMsg == Message(newId, "ai", <<"tpl:loaded", file.name>>, NoTable)
  IN  [i \in 1..Len(prev) |->
         [prev[i] EXCEPT !.messages =
                           IF prev[i].id = active
                           THEN Append(prev[i].messages, sysMsg)
                           ELSE prev[i].messages,
                         !.file = file,
                         !.fileName = file.name,
                         !.name = stripExtension(file.name)]]

\* setFile: the collection after the upload is bound to the active session.
setFileResult(prev, active, file, newId) ==
  LET sysMsg == Message(newId, "ai",
                        <<"tpl:loaded", file.name, file.selectedSheet, file.rowCount,
                          Len(file.headers), slice(file.headers, 0, SysMsgHeaders),
                          Len(file.headers) > SysMsgHeaders>>,
                        NoTable)
  IN  updateSession(prev, active,
                    [s \in Elements(prev) |->
                       [s EXCEPT !.messages = Append(s.messages, sysMsg),
                                 !.file = file,
                                 !.fileName = file.name,
                                 !.name = stripExtension(file.name)]])

\* sendMessage, synchronous part: the user message is appended.
sendMessageResult(prev, active, content, newId) ==
  LET userMsg == Message(newId, "user", content, NoTable)
  IN  updateSession(prev, active, [s \in Elements(prev) |-> appendMessage(s, userMsg)])

\* The callback as it would be if it read the live activeSessionId.
timerCallbackResult_LiveActive(prev, target, content, newId) ==
  LET i == findIndex(prev, activeSessionId)
      file == IF i = 0 THEN NoFile ELSE prev[i].file
      response == generateMockResponse(content, file)
      aiMsg == Message(newId, "ai", response.content, response.table)
  IN  updateSession(prev, activeSessionId, [s \in Elements(prev) |-> appendMessage(s, aiMsg)])

\* The callback as it would be if the file were captured when sendMessage
\* was called (the file of the last pending send to the target).
timerCallbackResult_StaleFile(prev, target, content, newId) ==
  LET k == CHOOSE k \in 1..Len(sends) : ~sends[k].done /\ sends[k].sid = target
      file == CHOOSE f \in Files \cup {NoFile} : f.name = sends[k].fileAtSend
      response == generateMockResponse(content, file)
      aiMsg == Message(newId, "ai", response.content, response.table)
  IN  updateSession(prev, target, [s \in Elements(prev) |-> appendMessage(s, aiMsg)])

\* The callback as it would be if a missing target fell back to the first
\* session, as the activeSession projection does.
timerCallbackResult_Fallback(prev, target, content, newId) ==
  LET i == findIndex(prev, target)
      to == IF i = 0 THEN prev[1].id ELSE target
      response == generateMockResponse(content, prev[IF i = 0 THEN 1 ELSE i].file)
      aiMsg == Message(newId, "ai", response.content, response.table)
  IN  updateSession(prev, to, [s \in Elements(prev) |-> appendMessage(s, aiMsg)])

\* sendMessage, the setTimeout callback: target is the activeSessionId the
\* callback closed over.
timerCallbackResult(prev, target, content, newId) ==
  LET i == findIndex(prev, target)
      file == IF i = 0 THEN NoFile ELSE prev[i].file
      response == generateMockResponse(content, file)
      aiMsg == Message(newId, "ai", response.content, response.table)
  IN  updateSession(prev, target, [s \in Elements(prev) |-> appendMessage(s, aiMsg)])

\* ChatArea.handleSend: what reaches onSendMessage (<<>>: nothing is sent).
handleSendText(input) == trim(input)

(***************************************************************************)
(* State.                                                                   *)
(*   sessions         useState<ChatSession[]>                               *)
(*   activeSessionId  useState("default")                                   *)
(*   isTyping         useState(false)                                       *)
(*   timers           the pending setTimeout callbacks of sendMessage, in   *)
(*                    the order they were set: what each closed over        *)
(*                    (target, content, the id of its user message) and the *)
(*                    time remaining                                        *)
(*   nextId           the next value of generateId                          *)
(*   sends            history: one record per sendMessage call              *)
(*   lastOp           history: the operation of the last step, with the     *)
(*                    activeSessionId and the number of sessions it found   *)
(***************************************************************************)
\* useState(null) of parsedFile, in the shape of a parsed workbook.
NoParsed == [name |-> <<>>, sheets |-> <<>>, json |-> <<>>]

\* FileUploadPanel after mounting, closed, no FileReader at work.
InitPanel ==
  [isOpen |-> FALSE,
   parsedFile |-> NoParsed,
   selectedSheet |-> "",
   error |-> "",
   isProcessing |-> FALSE,
   reads |-> <<>>]

Op(op, id, uid, text) ==
  [op |-> op, id |-> id, uid |-> uid, text |-> text,
   active |-> activeSessionId, count |-> Len(sessions)]

Init ==
  /\ sessions = <<NewSession(DefaultId, <<"Welcome Chat">>)>>
  /\ activeSessionId = DefaultId
  /\ isTyping = FALSE
  /\ timers = <<>>
  /\ nextId = 1
  /\ sends = <<>>
  /\ lastOp = [op |-> "init", id |-> DefaultId, uid |-> GhostId, text |-> <<>>,
               active |-> DefaultId, count |-> 1]
  /\ panel = InitPanel

\* Every pending timer will draw one more id when it fires.
IdsLeft(n) == nextId + n + Len(timers) <= MaxId + 1

\* The texts typed into the chat input.
ChatInputs == {<<WS>>, <<WS, "Summary">>}

\* The delays of setTimeout, 1200 + Math.random() * 800 ms, in units of 600 ms.
Delays == DelayMin..DelayMax

CreateNewChat ==
  /\ Len(sessions) < MaxSessions
  /\ IdsLeft(1)
  /\ LET r == createNewChatResult(sessions, nextId)
     IN  /\ sessions' = r.sessions
         /\ activeSessionId' = r.active
  /\ nextId' = nextId + 1
  /\ lastOp' = Op("create", nextId, GhostId, <<>>)
  /\ UNCHANGED <<isTyping, timers, sends, panel>>

setActiveSessionId(id) ==
  /\ activeSessionId' = id
  /\ lastOp' = Op("select", id, GhostId, <<>>)
  /\ UNCHANGED <<sessions, isTyping, timers, nextId, sends, panel>>

\* ChatSidebar: onSelectSession(session.id) for a session of the rendered list.
SelectSession == \E id \in Ids(sessions) : setActiveSessionId(id)

\* deleteSession as it would be if it cleared the timers of the session.
deleteSession_ClearsTimers(id) ==
  /\ IdsLeft(1)
  /\ LET r == deleteSessionResult(sessions, activeSessionId, id, nextId)
     IN  /\ sessions' = r.sessions
         /\ activeSessionId' = r.active
         /\ nextId' = IF r.usedId THEN nextId + 1 ELSE nextId
  /\ timers' = SelectSeq(timers, LAMBDA t : t.target # id)
  /\ lastOp' = Op("delete", id, GhostId, <<>>)
  /\ UNCHANGED <<isTyping, sends, panel>>

deleteSession(id) ==
  /\ IdsLeft(1)
  /\ LET r == deleteSessionResult(sessions, activeSessionId, id, nextId)
     IN  /\ sessions' = r.sessions
         /\ activeSessionId' = r.active
         /\ nextId' = IF r.usedId THEN nextId + 1 ELSE nextId
  /\ lastOp' = Op("delete", id, GhostId, <<>>)
  /\ UNCHANGED <<isTyping, timers, sends, panel>>

\* ChatSidebar: onDeleteSession(session.id) for a session of the rendered list.
DeleteSession == \E id \in Ids(sessions) : deleteSession(id)

\* Index: onFileUploaded={setFile}, with a file built by the panel.
SetFile ==
  /\ IdsLeft(1)
  /\ \E file \in Files :
       /\ sessions' = setFileResult(sessions, activeSessionId, file, nextId)
       /\ lastOp' = Op("setFile", activeSessionId, GhostId, file.name)
  /\ nextId' = nextId + 1
  /\ UNCHANGED <<activeSessionId, isTyping, timers, sends, panel>>

sendMessage(content) ==
  /\ IdsLeft(2)
  /\ sessions' = sendMessageResult(sessions, activeSessionId, content, nextId)
  /\ isTyping' = TRUE
  /\ \E delay \in Delays :
       timers' = Append(timers, [target |-> activeSessionId, content |-> content,
                                 uid |-> nextId, remaining |-> delay])
  /\ nextId' = nextId + 1
  /\ sends' = Append(sends, [uid |-> nextId, sid |-> activeSessionId,
                             fileAtSend |-> activeSession.file.name,
                             done |-> FALSE, aid |-> GhostId])
  /\ lastOp' = Op("send", activeSessionId, nextId, content)
  /\ UNCHANGED <<activeSessionId, panel>>

\* ChatArea.handleSend: the input is trimmed, and nothing is sent when
\* nothing remains.
HandleSend ==
  \E input \in ChatInputs :
    LET trimmed == handleSendText(input) IN
    IF trimmed = <<>>
    THEN /\ lastOp' = Op("handleSend", activeSessionId, GhostId, input)
         /\ UNCHANGED <<sessions, activeSessionId, isTyping, timers, nextId, sends, panel>>
    ELSE sendMessage(trimmed)

\* The first timer that is due.
DueTimer ==
  IF \E i \in 1..Len(timers) : timers[i].remaining = 0
  THEN CHOOSE i \in 1..Len(timers) :
         /\ timers[i].remaining = 0
         /\ \A j \in 1..(i - 1) : timers[j].remaining # 0
  ELSE 0

removeAt(s, i) == SubSeq(s, 1, i - 1) \o SubSeq(s, i + 1, Len(s))

\* The setTimeout callback of sendMessage.
TimerFires ==
  /\ DueTimer # 0
  /\ LET t == timers[DueTimer]
     IN  /\ sessions' = timerCallbackResult(sessions, t.target, t.content, nextId)
         /\ timers' = removeAt(timers, DueTimer)
         /\ sends' = [k \in 1..Len(sends) |->
                        IF sends[k].uid = t.uid
                        THEN [sends[k] EXCEPT !.done = TRUE, !.aid = nextId]
                        ELSE sends[k]]
         /\ lastOp' = Op("deliver", t.target, t.uid, t.content)
  /\ isTyping' = FALSE
  /\ nextId' = nextId + 1
  /\ UNCHANGED <<activeSessionId, panel>>

\* Time passes: 600 ms, while no timer is due.
Tick ==
  /\ timers # <<>>
  /\ \A i \in 1..Len(timers) : timers[i].remaining > 0
  /\ timers' = [i \in 1..Len(timers) |->
                  [timers[i] EXCEPT !.remaining = timers[i].remaining - 1]]
  /\ lastOp' = Op("tick", activeSessionId, GhostId, <<>>)
  /\ UNCHANGED <<sessions, activeSessionId, isTyping, nextId, sends, panel>>

(***************************************************************************)
(* The application: the hook driven by Index, ChatSidebar and ChatArea.     *)
(***************************************************************************)
Next ==
  \/ CreateNewChat
  \/ SelectSession
  \/ DeleteSession
  \/ SetFile
  \/ HandleSend
  \/ TimerFires
  \/ Tick

Spec == Init /\ [][Next]_vars

\* The timer of the host fires every callback that is due, and time passes.
FairSpec == Spec /\ WF_vars(TimerFires) /\ WF_vars(Tick)

(***************************************************************************)
(* The hook on its own: the operations it returns, called with any          *)
(* argument.  setActiveSessionId is React's state setter, sendMessage and   *)
(* deleteSession are the callbacks of the hook.                             *)
(***************************************************************************)
\* An id that is the id of no session: generateId never returned it.
UnknownIds == {GhostId}

\* The texts a caller of the hook may pass to sendMessage.
HookTexts == {<<>>, <<WS>>, <<"Summary">>}

SetActiveSessionIdAny == \E id \in UnknownIds : setActiveSessionId(id)

DeleteSessionAny == \E id \in UnknownIds : deleteSession(id)

SendMessageAny == \E content \in HookTexts : sendMessage(content)

NextHook ==
  \/ Next
  \/ SetActiveSessionIdAny
  \/ DeleteSessionAny
  \/ SendMessageAny

SpecHook == Init /\ [][NextHook]_vars

(***************************************************************************)
(* The upload panel.  A dropped file is read by a FileReader of its own;    *)
(* the drop zone stays on screen while a file is read, so several loads may *)
(* be under way, and they end in any order.  A file whose bytes XLSX.read   *)
(* cannot parse has parses = FALSE.                                         *)
(***************************************************************************)
ParseFailedText == "Failed to parse the file. Please ensure it's a valid Excel file."
RejectedText == "Only Excel files (.xlsx, .xls) and CSV files are allowed!"

GoodDrop == [name |-> WorkbookA.name, parses |-> TRUE, workbook |-> WorkbookA]
CorruptDrop == [name |-> <<"broken", ".xlsx">>, parses |-> FALSE, workbook |-> NoParsed]

\* The files of an accepted type the user may drop.
AcceptedDrops == {GoodDrop, CorruptDrop}

\* processFile(file), up to reader.readAsArrayBuffer(file).
processFile(p, file) ==
  [p EXCEPT !.error = "", !.isProcessing = TRUE, !.reads = Append(@, file)]

\* reader.onload as it would be if the catch branch kept what had been read.
onload_InstallsOnFailure(p, i) ==
  LET file == p.reads[i]
      rest == removeAt(p.reads, i)
  IN  IF file.parses
      THEN [p EXCEPT !.parsedFile = file.workbook,
                     !.selectedSheet = file.workbook.sheets[1],
                     !.isProcessing = FALSE,
                     !.reads = rest]
      ELSE [p EXCEPT !.parsedFile = [file.workbook EXCEPT !.name = file.name],
                     !.error = ParseFailedText,
                     !.isProcessing = FALSE,
                     !.reads = rest]

\* reader.onload of the i-th load under way.
onload(p, i) ==
  LET file == p.reads[i]
      rest == removeAt(p.reads, i)
  IN  IF file.parses
      THEN [p EXCEPT !.parsedFile = file.workbook,
                     !.selectedSheet = file.workbook.sheets[1],
                     !.isProcessing = FALSE,
                     !.reads = rest]
      ELSE [p EXCEPT !.error = ParseFailedText,
                     !.isProcessing = FALSE,
                     !.reads = rest]

\* Index: the upload buttons call setUploadOpen(true).
OpenPanel ==
  /\ ~panel.isOpen
  /\ panel' = [panel EXCEPT !.isOpen = TRUE]
  /\ lastOp' = Op("open", activeSessionId, GhostId, <<>>)
  /\ UNCHANGED <<sessions, activeSessionId, isTyping, timers, nextId, sends>>

\* onClose: the X button and the backdrop.
ClosePanel ==
  /\ panel.isOpen
  /\ panel' = [panel EXCEPT !.isOpen = FALSE]
  /\ lastOp' = Op("close", activeSessionId, GhostId, <<>>)
  /\ UNCHANGED <<sessions, activeSessionId, isTyping, timers, nextId, sends>>

\* useDropzone.onDropAccepted: the drop zone is rendered while the panel is
\* open and no workbook is parsed.
DropAccepted ==
  /\ panel.isOpen
  /\ panel.parsedFile = NoParsed
  /\ Len(panel.reads) < MaxReads
  /\ \E file \in AcceptedDrops :
       /\ panel' = processFile(panel, file)
       /\ lastOp' = Op("drop", activeSessionId, GhostId, file.name)
  /\ UNCHANGED <<sessions, activeSessionId, isTyping, timers, nextId, sends>>

\* useDropzone.onDropRejected
DropRejected ==
  /\ panel.isOpen
  /\ panel.parsedFile = NoParsed
  /\ panel' = [panel EXCEPT !.error = RejectedText]
  /\ lastOp' = Op("rejected", activeSessionId, GhostId, <<>>)
  /\ UNCHANGED <<sessions, activeSessionId, isTyping, timers, nextId, sends>>

\* A FileReader finishes its load and calls reader.onload.
ReaderOnload ==
  /\ \E i \in 1..Len(panel.reads) :
       /\ panel' = onload(panel, i)
       /\ lastOp' = Op(IF panel.reads[i].parses THEN "parsed" ELSE "parseFailed",
                       activeSessionId, GhostId, panel.reads[i].name)
  /\ UNCHANGED <<sessions, activeSessionId, isTyping, timers, nextId, sends>>

\* FileUploadPanel.handleConfirm, with onFileUploaded = setFile and
\* onClose = setUploadOpen(false).
HandleConfirm ==
  /\ panel.isOpen
  /\ panel.parsedFile # NoParsed
  /\ panel.selectedSheet # ""
  /\ IdsLeft(1)
  /\ sessions' = setFileResult(sessions, activeSessionId,
                               handleConfirm(panel.parsedFile), nextId)
  /\ nextId' = nextId + 1
  /\ panel' = [panel EXCEPT !.parsedFile = NoParsed, !.selectedSheet = "",
                            !.isOpen = FALSE]
  /\ lastOp' = Op("setFile", activeSessionId, GhostId, panel.parsedFile.name)
  /\ UNCHANGED <<activeSessionId, isTyping, timers, sends>>

\* FileUploadPanel.handleReset: the X next to the name of the parsed file.
HandleReset ==
  /\ panel.isOpen
  /\ panel.parsedFile # NoParsed
  /\ panel' = [panel EXCEPT !.parsedFile = NoParsed, !.selectedSheet = "",
                            !.error = ""]
  /\ lastOp' = Op("reset", activeSessionId, GhostId, <<>>)
  /\ UNCHANGED <<sessions, activeSessionId, isTyping, timers, nextId, sends>>

NextUpload ==
  \/ OpenPanel
  \/ ClosePanel
  \/ DropAccepted
  \/ DropRejected
  \/ ReaderOnload
  \/ HandleConfirm
  \/ HandleReset
  \/ CreateNewChat
  \/ SelectSession

SpecUpload == Init /\ [][NextUpload]_vars

(***************************************************************************)
(* The dispatcher at work: one session, bound to any of the files or to     *)
(* none, is asked the questions below; the replies come through the timer   *)
(* callback.                                                                *)
(***************************************************************************)
DispatchFiles == {FileA, FileB, FileTwelve, FileEmpty}

\* The questions typed: every keyword, keywords of two rules together, a
\* keyword inside a longer word, upper case, and no keyword.
DispatchQuestions ==
  { <<"Summary", WS, "preview">>,
    <<"describe", WS, "columns">>,
    <<"overview">>,
    <<"headers", WS, "count">>,
    <<"field", WS, "LAST">>,
    <<"rows", WS, "sample">>,
    <<"Show", WS, "many">>,
    <<"how", WS, "many">>,
    <<"how">>,
    <<"preview">>,
    <<"first", WS, "last">>,
    <<WS, "LAST", WS>>,
    <<"hello">> }

InitDispatch ==
  /\ \E file \in DispatchFiles \cup {NoFile} :
       IF file = NoFile
       THEN /\ sessions = <<NewSession(DefaultId, <<"Welcome Chat">>)>>
            /\ nextId = 1
            /\ lastOp = [op |-> "init", id |-> DefaultId, uid |-> GhostId,
                         text |-> <<>>, active |-> DefaultId, count |-> 1]
       ELSE /\ sessions = setFileResult(<<NewSession(DefaultId, <<"Welcome Chat">>)>>,
                                        DefaultId, file, 1)
            /\ nextId = 2
            /\ lastOp = [op |-> "setFile", id |-> DefaultId, uid |-> GhostId,
                         text |-> file.name, active |-> DefaultId, count |-> 1]
  /\ activeSessionId = DefaultId
  /\ isTyping = FALSE
  /\ timers = <<>>
  /\ sends = <<>>
  /\ panel = InitPanel

\* ChatArea.handleSend with a question.
AskQuestion == \E input \in DispatchQuestions : sendMessage(handleSendText(input))

NextDispatch ==
  \/ AskQuestion
  \/ TimerFires
  \/ Tick

SpecDispatch == InitDispatch /\ [][NextDispatch]_vars

(***************************************************************************)
(* Properties.                                                              *)
(***************************************************************************)
HasMessage(s, mid) == \E j \in 1..Len(s.messages) : s.messages[j].id = mid

SessionOf(id) == sessions[findIndex(sessions, id)]

Last(seq) == seq[Len(seq)]

\* C1: the reply to a send issued while session A was active is in A's log
\* whenever A still exists, and in the log of no other session, whichever
\* session is active when the timer fires.
C1_ReplyGoesToTargetedSession ==
  \A k \in 1..Len(sends) :
    sends[k].done =>
      /\ \A i \in 1..Len(sessions) :
           HasMessage(sessions[i], sends[k].aid) => sessions[i].id = sends[k].sid
      /\ sends[k].sid \in Ids(sessions) =>
           HasMessage(SessionOf(sends[k].sid), sends[k].aid)

\* A reply has just been delivered to a session that is no longer active.
C1_Witness ==
  /\ lastOp.op = "deliver"
  /\ lastOp.id # activeSessionId
  /\ lastOp.id \in Ids(sessions)
  /\ \E k \in 1..Len(sends) :
       /\ sends[k].uid = lastOp.uid
       /\ sends[k].done
       /\ HasMessage(SessionOf(lastOp.id), sends[k].aid)

\* C2: the reply is computed from the file bound to the targeted session
\* when the timer callback runs, not from the file bound when sendMessage
\* was called.
C2_ReplyUsesFileAtDelivery ==
  [][(lastOp'.op = "deliver" /\ lastOp'.id \in Ids(sessions)) =>
       LET i == findIndex(sessions, lastOp'.id)
           r == generateMockResponse(lastOp'.text, sessions[i].file)
           m == Last(sessions'[i].messages)
       IN  /\ Len(sessions'[i].messages) = Len(sessions[i].messages) + 1
           /\ m.role = "ai"
           /\ m.content = r.content
           /\ m.table = r.table
           /\ (sessions[i].file # NoFile => m.content # <<"tpl:upload-first">>)]_vars

\* A reply has just been delivered to a session whose file was replaced
\* between the send and the delivery, and it speaks of the later file.
C2_Witness ==
  /\ lastOp.op = "deliver"
  /\ lastOp.id \in Ids(sessions)
  /\ \E k \in 1..Len(sends) :
       /\ sends[k].uid = lastOp.uid
       /\ sends[k].fileAtSend = FileA.name
       /\ SessionOf(lastOp.id).file = FileB
       /\ Last(SessionOf(lastOp.id).messages).id = sends[k].aid
       /\ Last(SessionOf(lastOp.id).messages).content =
            generateMockResponse(lastOp.text, FileB).content

\* C3: when the targeted session was deleted before the timer fires, the
\* delivery leaves the session collection as it was.
C3_DeliveryToDeletedSessionIsNoOp ==
  [][(lastOp'.op = "deliver" /\ lastOp'.id \notin Ids(sessions)) =>
       sessions' = sessions]_vars

\* A timer has just fired whose session is gone, while other sessions exist
\* and one of them holds messages.
C3_Witness ==
  /\ lastOp.op = "deliver"
  /\ lastOp.id \notin Ids(sessions)
  /\ \E k \in 1..Len(sends) : sends[k].uid = lastOp.uid /\ sends[k].done
  /\ \E i \in 1..Len(sessions) : sessions[i].messages # <<>>

\* C4: the session collection is never empty.
C4_SessionsNeverEmpty == Len(sessions) >= 1

\* The only session has just been deleted.
C4_Witness ==
  /\ lastOp.op = "delete"
  /\ lastOp.count = 1
  /\ lastOp.id \notin Ids(sessions)

\* C5: when sessions are selected from the current list, activeSessionId is
\* the id of exactly one session of the collection.
C5_ExactlyOneActiveSession ==
  Cardinality({i \in 1..Len(sessions) : sessions[i].id = activeSessionId}) = 1

\* The active session has just been deleted while others remained.
C5_Witness ==
  /\ lastOp.op = "delete"
  /\ lastOp.id = lastOp.active
  /\ lastOp.count >= 2
  /\ Len(sessions) = lastOp.count - 1

\* C6: deleting the only session leaves exactly one session, with a newly
\* generated id, no message and no file, and that session is active.
C6_DeleteOnlySessionCreatesFallback ==
  [][(lastOp'.op = "delete" /\ Ids(sessions) = {lastOp'.id}) =>
       /\ Len(sessions') = 1
       /\ sessions'[1].id \notin Ids(sessions)
       /\ sessions'[1].id >= nextId
       /\ sessions'[1].id # DefaultId
       /\ sessions'[1].messages = <<>>
       /\ sessions'[1].file = NoFile
       /\ sessions'[1].fileName = <<>>
       /\ activeSessionId' = sessions'[1].id]_vars

\* The only session, which held a file and messages, has just been deleted.
C6_Witness ==
  /\ lastOp.op = "delete"
  /\ lastOp.count = 1
  /\ lastOp.id \notin Ids(sessions)
  /\ \E k \in 1..Len(sends) : sends[k].sid = lastOp.id /\ sends[k].fileAtSend # <<>>
  /\ Len(sessions) = 1
  /\ activeSessionId = sessions[1].id

\* The positions of the sessions that deleteSession(id) keeps.
KeptPositions(id) == {i \in 1..Len(sessions) : sessions[i].id # id}

NthKept(id, j) ==
  CHOOSE i \in KeptPositions(id) :
    Cardinality({x \in KeptPositions(id) : x <= i}) = j

\* C7: when deleteSession(id) leaves a session, activeSessionId becomes the
\* id at position zero if id was active and is unchanged otherwise, and the
\* remaining sessions keep their order, their messages and their files.
C7_DeleteKeepsOrderAndPicksPositionZero ==
  [][(lastOp'.op = "delete" /\ KeptPositions(lastOp'.id) # {}) =>
       LET id == lastOp'.id IN
       /\ Len(sessions') = Cardinality(KeptPositions(id))
       /\ \A j \in 1..Len(sessions') : sessions'[j] = sessions[NthKept(id, j)]
       /\ activeSessionId' = IF activeSessionId = id
                             THEN sessions'[1].id
                             ELSE activeSessionId]_vars

\* The active session, the middle one of three, has just been deleted, and
\* a remaining session holds messages.
C7_Witness ==
  /\ lastOp.op = "delete"
  /\ lastOp.count = 3
  /\ lastOp.id = lastOp.active
  /\ Len(sessions) = 2
  /\ sessions[1].id > lastOp.id
  /\ lastOp.id > sessions[2].id
  /\ activeSessionId = sessions[1].id
  /\ \E i \in 1..2 : sessions[i].messages # <<>>

\* C8: setActiveSessionId with the id of no session changes nothing.
C8_UnknownSelectIsIgnored ==
  [][(lastOp'.op = "select" /\ lastOp'.id \notin Ids(sessions)) =>
       /\ activeSessionId' = activeSessionId
       /\ sessions' = sessions
       /\ isTyping' = isTyping]_vars

\* C8, the consequence: what is sent is appended to some session's log.
C8_SendsStillReachASession ==
  [][lastOp'.op = "send" =>
       \E i \in 1..Len(sessions') : HasMessage(sessions'[i], lastOp'.uid)]_vars

\* C9: sendMessage with a text that is empty or only whitespace appends no
\* message, leaves isTyping as it was and sets no timer.
C9_BlankSendIsNoOp ==
  [][(lastOp'.op = "send" /\ trim(lastOp'.text) = <<>>) =>
       /\ sessions' = sessions
       /\ isTyping' = isTyping
       /\ timers' = timers]_vars

\* What the application does with a blank input: ChatArea.handleSend
\* returns before it calls sendMessage.
HandleSendBlankIsNoOp ==
  [][lastOp'.op = "handleSend" =>
       /\ trim(lastOp'.text) = <<>>
       /\ sessions' = sessions
       /\ isTyping' = isTyping
       /\ timers' = timers
       /\ sends' = sends]_vars

\* The k-th sendMessage call has been made and its timer has not fired.
Pending(k) ==
  /\ k <= Len(sends)
  /\ \E i \in 1..Len(timers) : timers[i].uid = sends[k].uid

\* The k-th send is answered: its timer has fired and, if its session
\* exists, the log holds the reply after the user message.
Answered(k) ==
  /\ k <= Len(sends)
  /\ sends[k].done
  /\ ~Pending(k)
  /\ sends[k].sid \in Ids(sessions) =>
       LET log == SessionOf(sends[k].sid).messages IN
       \E p, q \in 1..Len(log) :
         /\ p < q
         /\ log[p].id = sends[k].uid /\ log[p].role = "user"
         /\ log[q].id = sends[k].aid /\ log[q].role = "ai"

\* Every send draws two ids.
MaxSends == MaxId \div 2

\* A timer leaves the queue only by firing.
NoCancellation ==
  \A i \in 1..Len(timers) :
    \/ \E j \in 1..Len(timers') :
         /\ timers'[j].uid = timers[i].uid
         /\ timers'[j].target = timers[i].target
         /\ timers'[j].content = timers[i].content
    \/ lastOp'.op = "deliver" /\ lastOp'.uid = timers[i].uid

\* C10: under fairness of the timer every send is eventually delivered, the
\* reply stands after the user message in the log of the session if it
\* still exists, and no operation removes a pending delivery.
C10_InFlightResponseCompletes ==
  /\ \A k \in 1..MaxSends : Pending(k) ~> Answered(k)
  /\ [][NoCancellation]_vars
  /\ [](\A k \in 1..Len(sends) : Pending(k) \/ Answered(k))

\* A send was answered in its session although another session was created
\* and the file changed while it was in flight.
C10_Witness ==
  /\ lastOp.op = "deliver"
  /\ lastOp.id \in Ids(sessions)
  /\ Len(sessions) >= 2
  /\ \E k \in 1..Len(sends) : sends[k].uid = lastOp.uid /\ Answered(k)

IsPrefix(a, b) == Len(a) <= Len(b) /\ SubSeq(b, 1, Len(a)) = a

\* C11: message logs are append-only: over any step, the log of a session
\* that exists before and after is a prefix of its later log.
C11_LogsAreAppendOnly ==
  [][\A i \in 1..Len(sessions) : \A j \in 1..Len(sessions') :
       sessions[i].id = sessions'[j].id =>
         IsPrefix(sessions[i].messages, sessions'[j].messages)]_vars

\* A reply has just been appended to a log that already held the message of
\* an upload and a user message, while another session exists.
C11_Witness ==
  /\ lastOp.op = "deliver"
  /\ lastOp.id \in Ids(sessions)
  /\ Len(sessions) >= 2
  /\ LET log == SessionOf(lastOp.id).messages IN
     /\ Len(log) = 3
     /\ log[1].role = "ai"
     /\ log[2].role = "user"
     /\ log[3].role = "ai"

\* C12: setFile binds the file to the active session and appends exactly
\* one assistant message to its log; every other session is unchanged.
C12_SetFileTouchesOnlyActiveSession ==
  [][lastOp'.op = "setFile" =>
       /\ Len(sessions') = Len(sessions)
       /\ \A i \in 1..Len(sessions) :
            IF sessions[i].id = activeSessionId
            THEN /\ sessions'[i].id = sessions[i].id
                 /\ sessions'[i].file \in Files
                 /\ sessions'[i].file.name = lastOp'.text
                 /\ Len(sessions'[i].messages) = Len(sessions[i].messages) + 1
                 /\ IsPrefix(sessions[i].messages, sessions'[i].messages)
                 /\ Last(sessions'[i].messages).role = "ai"
            ELSE sessions'[i] = sessions[i]
       /\ activeSessionId' = activeSessionId
       /\ activeSessionId \in Ids(sessions)]_vars

\* A file has just been bound to the active session while another session
\* holds the other file.
C12_Witness ==
  /\ lastOp.op = "setFile"
  /\ Len(sessions) >= 2
  /\ SessionOf(activeSessionId).file.name = lastOp.text
  /\ \E i \in 1..Len(sessions) :
       /\ sessions[i].id # activeSessionId
       /\ sessions[i].file \in Files
       /\ sessions[i].file # SessionOf(activeSessionId).file

\* C13: createNewChat puts a new session, with no message and no file, at
\* position zero, keeps the previous sessions unchanged and in order behind
\* it, and makes the new session active.
C13_CreatePrependsEmptyActiveSession ==
  [][lastOp'.op = "create" =>
       /\ Len(sessions') = Len(sessions) + 1
       /\ sessions'[1].id \notin Ids(sessions)
       /\ sessions'[1].id >= nextId
       /\ sessions'[1].messages = <<>>
       /\ sessions'[1].file = NoFile
       /\ sessions'[1].fileName = <<>>
       /\ \A i \in 1..Len(sessions) : sessions'[i + 1] = sessions[i]
       /\ activeSessionId' = sessions'[1].id]_vars

\* A third session has just been created in front of two sessions, one of
\* which holds messages.
C13_Witness ==
  /\ lastOp.op = "create"
  /\ lastOp.count = 2
  /\ Len(sessions) = 3
  /\ sessions[1].id = lastOp.id
  /\ activeSessionId = lastOp.id
  /\ \E i \in 2..3 : sessions[i].messages # <<>>

\* C17: isTyping is true whenever a sendMessage is in flight.
C17_TypingWhileReplyPending == timers # <<>> => isTyping

\* C18: the replies to two sends to the same session stand in the log in
\* the order in which the questions were sent.
C18_RepliesInSendOrder ==
  \A k1, k2 \in 1..Len(sends) :
    (/\ k1 < k2
     /\ sends[k1].sid = sends[k2].sid
     /\ sends[k2].done
     /\ sends[k2].sid \in Ids(sessions)) =>
      LET log == SessionOf(sends[k2].sid).messages IN
      /\ sends[k1].done
      /\ \E p, q \in 1..Len(log) :
           /\ p < q
           /\ log[p].id = sends[k1].aid
           /\ log[q].id = sends[k2].aid

\* The condition of the n-th rule of the dispatcher, in the order of the
\* source; the seventh rule is the default.
RuleHolds(n, question, file) ==
  LET q == toLowerCase(question) IN
  CASE n = 1 -> file = NoFile
    [] n = 2 -> includesAny(q, {"summary", "overview", "describe"})
    [] n = 3 -> includesAny(q, {"column", "header", "field"})
    [] n = 4 -> includesAny(q, {"row", "count", "how many"})
    [] n = 5 -> includesAny(q, {"show", "preview", "sample", "first"})
    [] n = 6 -> includes(q, "last")
    [] OTHER -> TRUE

FirstRule(question, file) ==
  CHOOSE n \in 1..7 :
    /\ RuleHolds(n, question, file)
    /\ \A m \in 1..(n - 1) : ~RuleHolds(m, question, file)

RuleTag(n) ==
  CASE n = 1 -> "tpl:upload-first"
    [] n = 2 -> "tpl:summary"
    [] n = 3 -> "tpl:columns"
    [] n = 4 -> "tpl:rows"
    [] n = 5 -> "tpl:preview"
    [] n = 6 -> "tpl:last"
    [] OTHER -> "tpl:default"

Mentions(question, word) ==
  \E i \in 1..Len(question) : LowerToken(question[i]) = word

\* C14: the reply delivered for a question is the output of the first rule,
\* in the fixed order, whose condition holds for the question and the file
\* of the session; a table comes with the preview and the last rule only; a
\* question with "summary" and "preview" gets the summary text without a
\* table, and a question to a session without a file gets the upload
\* prompt without a table.
C14_FirstMatchingRuleDecides ==
  [][(lastOp'.op = "deliver" /\ lastOp'.id \in Ids(sessions)) =>
       LET i == findIndex(sessions, lastOp'.id)
           file == sessions[i].file
           question == lastOp'.text
           reply == Last(sessions'[i].messages)
           n == FirstRule(question, file)
       IN  /\ reply.role = "ai"
           /\ reply.content[1] = RuleTag(n)
           /\ reply.table.present = (n \in {5, 6})
           /\ file = NoFile =>
                reply.content[1] = "tpl:upload-first" /\ ~reply.table.present
           /\ (/\ file # NoFile
               /\ Mentions(question, "summary")
               /\ Mentions(question, "preview")) =>
                reply.content[1] = "tpl:summary" /\ ~reply.table.present
     ]_vars

\* The reply to "Summary preview" has just been delivered to a session that
\* holds a file: it is the summary text, and it carries no table.
C14_Witness ==
  /\ lastOp.op = "deliver"
  /\ lastOp.text = <<"Summary", WS, "preview">>
  /\ lastOp.id \in Ids(sessions)
  /\ SessionOf(lastOp.id).file \in DispatchFiles
  /\ Last(SessionOf(lastOp.id).messages).content[1] = "tpl:summary"
  /\ ~Last(SessionOf(lastOp.id).messages).table.present

\* C15: the table of a preview reply holds the first min(5, n) data rows of
\* the file and the table of a "last" reply its last min(5, n) data rows, in
\* the order of the source; twelve rows give five, three rows give all
\* three; the headers of the table are the headers of the file.
C15_TableHoldsFirstOrLastFiveRows ==
  [][(/\ lastOp'.op = "deliver"
      /\ lastOp'.id \in Ids(sessions)
      /\ FirstRule(lastOp'.text, SessionOf(lastOp'.id).file) \in {5, 6}) =>
       LET i == findIndex(sessions, lastOp'.id)
           file == sessions[i].file
           n == Len(file.data)
           k == IF n < 5 THEN n ELSE 5
           table == Last(sessions'[i].messages).table
           rule == FirstRule(lastOp'.text, file)
       IN  /\ table.present
           /\ table.headers = file.headers
           /\ Len(table.rows) = k
           /\ rule = 5 => \A j \in 1..k : table.rows[j] = file.data[j]
           /\ rule = 6 => \A j \in 1..k : table.rows[j] = file.data[n - k + j]
           /\ n = 12 => Len(table.rows) = 5
           /\ n = 3 => table.rows = file.data
     ]_vars

\* A "last" reply has just been delivered to a session whose file has
\* twelve data rows: its table holds the rows 8 to 12, in that order.
C15_Witness ==
  /\ lastOp.op = "deliver"
  /\ lastOp.id \in Ids(sessions)
  /\ SessionOf(lastOp.id).file = FileTwelve
  /\ Last(SessionOf(lastOp.id).messages).content[1] = "tpl:last"
  /\ Last(SessionOf(lastOp.id).messages).table.rows
       = <<<<8, 64>>, <<9, 81>>, <<10, 100>>, <<11, 121>>, <<12, 144>>>>

\* The file that cannot be parsed is the file of no session and is not the
\* parsed workbook of the panel.
CorruptFileInstalledNowhere ==
  /\ panel'.parsedFile.name # CorruptDrop.name
  /\ \A i \in 1..Len(sessions') : sessions'[i].file.name # CorruptDrop.name

\* C16 as stated: after a parse failure the panel holds no parsed workbook,
\* the error message is set, the processing flag is false and the session
\* store is as it was.
C16_ParseFailureLeavesNoWorkbook ==
  [][lastOp'.op = "parseFailed" =>
       /\ panel'.parsedFile = NoParsed
       /\ panel'.error = ParseFailedText
       /\ ~panel'.isProcessing
       /\ sessions' = sessions
       /\ activeSessionId' = activeSessionId
       /\ CorruptFileInstalledNowhere
     ]_vars

\* C16, amended: a parse failure installs nothing: the parsed workbook of
\* the panel and its selected sheet are left as they were (absent when they
\* were absent), the error message is set, the processing flag is false, the
\* session store is as it was, and the file that failed is installed
\* nowhere.
C16_ParseFailureInstallsNothing ==
  [][lastOp'.op = "parseFailed" =>
       /\ panel'.parsedFile = panel.parsedFile
       /\ panel'.selectedSheet = panel.selectedSheet
       /\ panel.parsedFile = NoParsed => panel'.parsedFile = NoParsed
       /\ panel'.error = ParseFailedText
       /\ ~panel'.isProcessing
       /\ sessions' = sessions
       /\ activeSessionId' = activeSessionId
       /\ CorruptFileInstalledNowhere
     ]_vars

\* The load of the corrupt file has just failed while a session holds a
\* file: the panel shows the error and holds no parsed workbook, and the
\* session still holds its file.
C16_Witness ==
  /\ lastOp.op = "parseFailed"
  /\ lastOp.text = CorruptDrop.name
  /\ panel.parsedFile = NoParsed
  /\ panel.error = ParseFailedText
  /\ ~panel.isProcessing
  /\ \E i \in 1..Len(sessions) : sessions[i].file = FileA

====
